---- MODULE Spec2Model ----
(***************************************************************************)
(* Fallback positioning engine of the anchor-positioning demo gallery:     *)
(* available-space measurement, side selection, the transform-based        *)
(* placement pass, the viewport clamp of the measured variant, and the two *)
(* update strategies (update-on-change, update-each-frame) with their      *)
(* cleanup functions.                                                      *)
(*                                                                         *)
(* Lengths are integers.  A DOMRect is in CSS pixels.  An inline style     *)
(* length `${n}px` is kept as the number of half pixels it denotes, so     *)
(* that `left + width / 2` stays exact for odd widths.                     *)
(***************************************************************************)
EXTENDS Integers, Sequences, FiniteSets, TLC

(***************************************************************************)
(* Bounds of the model                                                     *)
(***************************************************************************)
MaxEvents == 3
MaxFrames == 3
MaxDisposeCalls == 2
MaxExtent == 2
MaxSize == 2
MaxGap == 1
MaxBox == 3
MaxPopovers == 2
MaxCleanupFns == 3

(***************************************************************************)
(* Program constants                                                       *)
(***************************************************************************)
GAP == 4
ARROW_GAP == 8

TPosition == {"inline-end", "block-end", "block-end-trigger-inline-start"}
TBasePlacement == {"top", "right", "bottom", "left"}
TFallbackStrategy == {"update-on-change", "update-each-frame"}

(***************************************************************************)
(* DOM values                                                              *)
(***************************************************************************)
\* A DOMRect: right and bottom are derived from left/top and the size.
DOMRect(l, t, w, h) ==
    [top |-> t, right |-> l + w, bottom |-> t + h, left |-> l,
     width |-> w, height |-> h]

Window(w, h) == [innerWidth |-> w, innerHeight |-> h]

\* The inline style value `${halves / 2}px`.
Px(halves) == [unit |-> "px", halves |-> halves]
\* The inline style value '' (property not set).
Unset == [unit |-> "", halves |-> 0]

(***************************************************************************)
(* Geometry utilities                                                      *)
(***************************************************************************)
getAvailableSpace_clamped(triggerRect, window) ==
    LET max0(x) == IF x < 0 THEN 0 ELSE x
    IN  [top |-> max0(triggerRect.top),
         right |-> max0(window.innerWidth - triggerRect.right),
         bottom |-> max0(window.innerHeight - triggerRect.bottom),
         left |-> max0(triggerRect.left)]

getAvailableSpace(triggerRect, window) ==
    [top |-> triggerRect.top,
     right |-> window.innerWidth - triggerRect.right,
     bottom |-> window.innerHeight - triggerRect.bottom,
     left |-> triggerRect.left]

getBestInlinePlacement_strict(available) ==
    IF available.right > available.left THEN "right" ELSE "left"

getBestInlinePlacement(available) ==
    IF available.right >= available.left THEN "right" ELSE "left"

getBestBlockPlacement(available) ==
    IF available.bottom >= available.top THEN "bottom" ELSE "top"

getPlacementFromPosition(position, available) ==
    IF position = "inline-end"
    THEN getBestInlinePlacement(available)
    ELSE getBestBlockPlacement(available)

getOppositePlacement_same(placement) ==
    placement

getOppositePlacement(placement) ==
    CASE placement = "top" -> "bottom"
      [] placement = "bottom" -> "top"
      [] placement = "left" -> "right"
      [] placement = "right" -> "left"

\* Object.entries(available): the keys in the order getAvailableSpace
\* creates them.
ObjectEntries(available) ==
    << <<"top", available.top>>, <<"right", available.right>>,
       <<"bottom", available.bottom>>, <<"left", available.left>> >>

RECURSIVE InsertDescending_unstable(_, _)
InsertDescending_unstable(sorted, e) ==
    IF sorted = << >> THEN <<e>>
    ELSE IF Head(sorted)[2] > e[2]
         THEN <<Head(sorted)>> \o InsertDescending_unstable(Tail(sorted), e)
         ELSE <<e>> \o sorted

\* Array.prototype.sort((a, b) => b[1] - a[1]): a stable sort, descending by
\* the second component.
RECURSIVE InsertDescending(_, _)
InsertDescending(sorted, e) ==
    IF sorted = << >> THEN <<e>>
    ELSE IF Head(sorted)[2] >= e[2]
         THEN <<Head(sorted)>> \o InsertDescending(Tail(sorted), e)
         ELSE <<e>> \o sorted

RECURSIVE SortDescending(_)
SortDescending(entries) ==
    IF entries = << >> THEN << >>
    ELSE InsertDescending(SortDescending(SubSeq(entries, 1, Len(entries) - 1)),
                          entries[Len(entries)])

MostSpace_unsorted(available) ==
    ObjectEntries(available)[1][1]

\* The last resort of getBestBasePlacement: sorted[0][0].
MostSpace_noFallback(available) ==
    LET fitting == SelectSeq(SortDescending(ObjectEntries(available)),
                             LAMBDA e : e[2] >= 0)
    IN  IF fitting = << >> THEN "undefined" ELSE fitting[1][1]

MostSpace(available) ==
    SortDescending(ObjectEntries(available))[1][1]

getBestBasePlacement_strictFit(desired, available, popoverRect, gap) ==
    LET spaceNeeded == [top |-> popoverRect.height + gap,
                        bottom |-> popoverRect.height + gap,
                        left |-> popoverRect.width + gap,
                        right |-> popoverRect.width + gap]
        opposite == getOppositePlacement(desired)
    IN  IF available[desired] > spaceNeeded[desired] THEN desired
        ELSE IF available[opposite] >= spaceNeeded[opposite] THEN opposite
        ELSE IF desired \in {"top", "bottom"}
                /\ available.right >= spaceNeeded.right THEN "right"
        ELSE IF desired \in {"top", "bottom"}
                /\ available.left >= spaceNeeded.left THEN "left"
        ELSE IF desired \in {"left", "right"}
                /\ available.bottom >= spaceNeeded.bottom THEN "bottom"
        ELSE IF desired \in {"left", "right"}
                /\ available.top >= spaceNeeded.top THEN "top"
        ELSE MostSpace(available)

getBestBasePlacement_leftFirst(desired, available, popoverRect, gap) ==
    LET spaceNeeded == [top |-> popoverRect.height + gap,
                        bottom |-> popoverRect.height + gap,
                        left |-> popoverRect.width + gap,
                        right |-> popoverRect.width + gap]
        opposite == getOppositePlacement(desired)
    IN  IF available[desired] >= spaceNeeded[desired] THEN desired
        ELSE IF available[opposite] >= spaceNeeded[opposite] THEN opposite
        ELSE IF desired \in {"top", "bottom"}
                /\ available.left >= spaceNeeded.left THEN "left"
        ELSE IF desired \in {"top", "bottom"}
                /\ available.right >= spaceNeeded.right THEN "right"
        ELSE IF desired \in {"left", "right"}
                /\ available.bottom >= spaceNeeded.bottom THEN "bottom"
        ELSE IF desired \in {"left", "right"}
                /\ available.top >= spaceNeeded.top THEN "top"
        ELSE MostSpace(available)

getBestBasePlacement(desired, available, popoverRect, gap) ==
    LET spaceNeeded == [top |-> popoverRect.height + gap,
                        bottom |-> popoverRect.height + gap,
                        left |-> popoverRect.width + gap,
                        right |-> popoverRect.width + gap]
        opposite == getOppositePlacement(desired)
    IN  IF available[desired] >= spaceNeeded[desired] THEN desired
        ELSE IF available[opposite] >= spaceNeeded[opposite] THEN opposite
        ELSE IF desired \in {"top", "bottom"}
                /\ available.right >= spaceNeeded.right THEN "right"
        ELSE IF desired \in {"top", "bottom"}
                /\ available.left >= spaceNeeded.left THEN "left"
        ELSE IF desired \in {"left", "right"}
                /\ available.bottom >= spaceNeeded.bottom THEN "bottom"
        ELSE IF desired \in {"left", "right"}
                /\ available.top >= spaceNeeded.top THEN "top"
        ELSE MostSpace(available)

(***************************************************************************)
(* Full placements.  A TPlacement is a JavaScript string, kept as the      *)
(* sequence of its characters so that startsWith, endsWith and the         *)
(* template literal of buildPlacement do what they do in the code.         *)
(***************************************************************************)
Chars(word) ==
    CASE word = "top" -> <<"t", "o", "p">>
      [] word = "bottom" -> <<"b", "o", "t", "t", "o", "m">>
      [] word = "left" -> <<"l", "e", "f", "t">>
      [] word = "right" -> <<"r", "i", "g", "h", "t">>
      [] word = "-start" -> <<"-", "s", "t", "a", "r", "t">>
      [] word = "-end" -> <<"-", "e", "n", "d">>
      [] word = "start" -> <<"s", "t", "a", "r", "t">>
      [] word = "end" -> <<"e", "n", "d">>

TAlignment == {"start", "end", "center"}

TPlacement ==
    {Chars(b) : b \in TBasePlacement}
        \cup {Chars(b) \o Chars(a) : b \in TBasePlacement, a \in {"-start", "-end"}}

startsWith(string, prefix) ==
    /\ Len(string) >= Len(prefix)
    /\ SubSeq(string, 1, Len(prefix)) = prefix

endsWith(string, suffix) ==
    /\ Len(string) >= Len(suffix)
    /\ SubSeq(string, Len(string) - Len(suffix) + 1, Len(string)) = suffix

getBasePlacement(placement) ==
    IF startsWith(placement, Chars("top")) THEN "top"
    ELSE IF startsWith(placement, Chars("bottom")) THEN "bottom"
    ELSE IF startsWith(placement, Chars("left")) THEN "left"
    ELSE "right"

getAlignment_startOnly(placement) ==
    IF endsWith(placement, Chars("-start")) THEN "start"
    ELSE "center"

getAlignment(placement) ==
    IF endsWith(placement, Chars("-start")) THEN "start"
    ELSE IF endsWith(placement, Chars("-end")) THEN "end"
    ELSE "center"

buildPlacement_dropsAlignment(base, alignment) ==
    Chars(base)

\* `${base}-${alignment}`
buildPlacement(base, alignment) ==
    IF alignment = "center" THEN Chars(base)
    ELSE Chars(base) \o <<"-">> \o Chars(alignment)

(***************************************************************************)
(* Transform-based placement calculator (simple variant)                   *)
(***************************************************************************)
applyPlacementStyles_leftGapSign(style, placement, position, triggerRect) ==
    CASE placement = "top" ->
           IF position = "block-end-trigger-inline-start"
           THEN [style EXCEPT !.top = Px(2 * (triggerRect.top - GAP)),
                              !.left = Px(2 * triggerRect.left),
                              !.transform = "translateY(-100%)"]
           ELSE [style EXCEPT !.top = Px(2 * (triggerRect.top - GAP)),
                              !.left = Px(2 * triggerRect.left + triggerRect.width),
                              !.transform = "translate(-50%, -100%)"]
      [] placement = "bottom" ->
           IF position = "block-end-trigger-inline-start"
           THEN [style EXCEPT !.top = Px(2 * (triggerRect.bottom + GAP)),
                              !.left = Px(2 * triggerRect.left)]
           ELSE [style EXCEPT !.top = Px(2 * (triggerRect.bottom + GAP)),
                              !.left = Px(2 * triggerRect.left + triggerRect.width),
                              !.transform = "translateX(-50%)"]
      [] placement = "left" ->
           [style EXCEPT !.left = Px(2 * (triggerRect.left + GAP)),
                         !.top = Px(2 * triggerRect.top + triggerRect.height),
                         !.transform = "translate(-100%, -50%)"]
      [] placement = "right" ->
           [style EXCEPT !.left = Px(2 * (triggerRect.right + GAP)),
                         !.top = Px(2 * triggerRect.top + triggerRect.height),
                         !.transform = "translateY(-50%)"]

applyPlacementStyles(style, placement, position, triggerRect) ==
    CASE placement = "top" ->
           IF position = "block-end-trigger-inline-start"
           THEN [style EXCEPT !.top = Px(2 * (triggerRect.top - GAP)),
                              !.left = Px(2 * triggerRect.left),
                              !.transform = "translateY(-100%)"]
           ELSE [style EXCEPT !.top = Px(2 * (triggerRect.top - GAP)),
                              !.left = Px(2 * triggerRect.left + triggerRect.width),
                              !.transform = "translate(-50%, -100%)"]
      [] placement = "bottom" ->
           IF position = "block-end-trigger-inline-start"
           THEN [style EXCEPT !.top = Px(2 * (triggerRect.bottom + GAP)),
                              !.left = Px(2 * triggerRect.left)]
           ELSE [style EXCEPT !.top = Px(2 * (triggerRect.bottom + GAP)),
                              !.left = Px(2 * triggerRect.left + triggerRect.width),
                              !.transform = "translateX(-50%)"]
      [] placement = "left" ->
           [style EXCEPT !.left = Px(2 * (triggerRect.left - GAP)),
                         !.top = Px(2 * triggerRect.top + triggerRect.height),
                         !.transform = "translate(-100%, -50%)"]
      [] placement = "right" ->
           [style EXCEPT !.left = Px(2 * (triggerRect.right + GAP)),
                         !.top = Px(2 * triggerRect.top + triggerRect.height),
                         !.transform = "translateY(-50%)"]

applyPlacement_keepsTransform(style, triggerRect, window, position) ==
    LET available == getAvailableSpace(triggerRect, window)
        placement == getPlacementFromPosition(position, available)
        reset == [style EXCEPT !.top = Unset, !.left = Unset,
                               !.position = "fixed"]
    IN  applyPlacementStyles(reset, placement, position, triggerRect)

\* One placement pass: re-reads the trigger's rectangle and the window size.
applyPlacement(style, triggerRect, window, position) ==
    LET available == getAvailableSpace(triggerRect, window)
        placement == getPlacementFromPosition(position, available)
        reset == [style EXCEPT !.top = Unset, !.left = Unset,
                               !.transform = "", !.position = "fixed"]
    IN  applyPlacementStyles(reset, placement, position, triggerRect)

\* A popover element: its inline style and the size its bounding rectangle
\* would report if it were measured.
HTMLElement(style, size) == [style |-> style, rect |-> size]

applyPlacementOn_measured(popover, triggerRect, window, position) ==
    LET placed == applyPlacement(popover.style, triggerRect, window, position)
    IN  [popover EXCEPT
           !.style = [placed EXCEPT !.left = Px(@.halves - popover.rect.width),
                                    !.transform = ""]]

\* applyPlacement(popover, trigger, position) on the element: of the popover
\* only its style is touched.
applyPlacementOn(popover, triggerRect, window, position) ==
    [popover EXCEPT
       !.style = applyPlacement(popover.style, triggerRect, window, position)]

(***************************************************************************)
(* Arrow-aware placement calculator                                        *)
(***************************************************************************)
\* applyPlacement of the arrow variant.
arrowApplyPlacement(style, actualPlacement, triggerRect) ==
    LET base == getBasePlacement(actualPlacement)
        alignment == getAlignment(actualPlacement)
        reset == [style EXCEPT !.top = Unset, !.left = Unset, !.right = Unset,
                               !.bottom = Unset, !.transform = "",
                               !.position = "fixed"]
    IN  CASE base = "top" ->
               CASE alignment = "start" ->
                      [reset EXCEPT !.top = Px(2 * (triggerRect.top - ARROW_GAP)),
                                    !.left = Px(2 * triggerRect.left),
                                    !.transform = "translateY(-100%)"]
                 [] alignment = "end" ->
                      [reset EXCEPT !.top = Px(2 * (triggerRect.top - ARROW_GAP)),
                                    !.left = Px(2 * triggerRect.right),
                                    !.transform = "translate(-100%, -100%)"]
                 [] OTHER ->
                      [reset EXCEPT !.top = Px(2 * (triggerRect.top - ARROW_GAP)),
                                    !.left = Px(2 * triggerRect.left + triggerRect.width),
                                    !.transform = "translate(-50%, -100%)"]
          [] base = "bottom" ->
               CASE alignment = "start" ->
                      [reset EXCEPT !.top = Px(2 * (triggerRect.bottom + ARROW_GAP)),
                                    !.left = Px(2 * triggerRect.left)]
                 [] alignment = "end" ->
                      [reset EXCEPT !.top = Px(2 * (triggerRect.bottom + ARROW_GAP)),
                                    !.left = Px(2 * triggerRect.right),
                                    !.transform = "translateX(-100%)"]
                 [] OTHER ->
                      [reset EXCEPT !.top = Px(2 * (triggerRect.bottom + ARROW_GAP)),
                                    !.left = Px(2 * triggerRect.left + triggerRect.width),
                                    !.transform = "translateX(-50%)"]
          [] base = "left" ->
               CASE alignment = "start" ->
                      [reset EXCEPT !.left = Px(2 * (triggerRect.left - ARROW_GAP)),
                                    !.top = Px(2 * triggerRect.top),
                                    !.transform = "translateX(-100%)"]
                 [] alignment = "end" ->
                      [reset EXCEPT !.left = Px(2 * (triggerRect.left - ARROW_GAP)),
                                    !.top = Px(2 * triggerRect.bottom),
                                    !.transform = "translate(-100%, -100%)"]
                 [] OTHER ->
                      [reset EXCEPT !.left = Px(2 * (triggerRect.left - ARROW_GAP)),
                                    !.top = Px(2 * triggerRect.top + triggerRect.height),
                                    !.transform = "translate(-100%, -50%)"]
          [] OTHER ->
               CASE alignment = "start" ->
                      [reset EXCEPT !.left = Px(2 * (triggerRect.right + ARROW_GAP)),
                                    !.top = Px(2 * triggerRect.top)]
                 [] alignment = "end" ->
                      [reset EXCEPT !.left = Px(2 * (triggerRect.right + ARROW_GAP)),
                                    !.top = Px(2 * triggerRect.bottom),
                                    !.transform = "translateY(-100%)"]
                 [] OTHER ->
                      [reset EXCEPT !.left = Px(2 * (triggerRect.right + ARROW_GAP)),
                                    !.top = Px(2 * triggerRect.top + triggerRect.height),
                                    !.transform = "translateY(-50%)"]

\* The placement calculateAndApplyPlacement hands to applyPlacement.
actualPlacement(desiredPlacement, triggerRect, popoverRect, window) ==
    LET available == getAvailableSpace(triggerRect, window)
        desiredBase == getBasePlacement(desiredPlacement)
        alignment == getAlignment(desiredPlacement)
        actualBase == getBestBasePlacement(desiredBase, available, popoverRect,
                                           ARROW_GAP)
    IN  buildPlacement(actualBase, alignment)

calculateAndApplyPlacement(style, triggerRect, popoverRect, window, desiredPlacement) ==
    arrowApplyPlacement(
        style,
        actualPlacement(desiredPlacement, triggerRect, popoverRect, window),
        triggerRect)

(***************************************************************************)
(* Where a placed popover is drawn                                         *)
(***************************************************************************)
\* The translation a transform value of the calculators applies, in percent
\* of the popover's own width and height.
transformOffset(transform) ==
    CASE transform = "translateX(-50%)" -> [x |-> 0 - 50, y |-> 0]
      [] transform = "translateX(-100%)" -> [x |-> 0 - 100, y |-> 0]
      [] transform = "translateY(-50%)" -> [x |-> 0, y |-> 0 - 50]
      [] transform = "translateY(-100%)" -> [x |-> 0, y |-> 0 - 100]
      [] transform = "translate(-50%, -100%)" -> [x |-> 0 - 50, y |-> 0 - 100]
      [] transform = "translate(-100%, -50%)" -> [x |-> 0 - 100, y |-> 0 - 50]
      [] transform = "translate(-100%, -100%)" -> [x |-> 0 - 100, y |-> 0 - 100]
      [] OTHER -> [x |-> 0, y |-> 0]

\* The rectangle, in half pixels, in which a fixed popover of the given size
\* is drawn: its inline left/top moved by its transform.
visualRect(style, size) ==
    LET offset == transformOffset(style.transform)
        l == style.left.halves + (offset.x * size.width) \div 50
        t == style.top.halves + (offset.y * size.height) \div 50
    IN  [left |-> l, right |-> l + 2 * size.width,
         top |-> t, bottom |-> t + 2 * size.height]

(***************************************************************************)
(* Viewport clamp (measured variant)                                       *)
(***************************************************************************)
\* popover.getBoundingClientRect() of a fixed box without transform or
\* margin, in half pixels: its inline left/top and its own size.
getBoundingClientRect(style, size) ==
    [left |-> style.left.halves,
     right |-> style.left.halves + 2 * size.width,
     top |-> style.top.halves,
     bottom |-> style.top.halves + 2 * size.height,
     width |-> 2 * size.width,
     height |-> 2 * size.height]

constrainToViewport_usesRight(style, size, window) ==
    LET rect == getBoundingClientRect(style, size)
        left1 == IF rect.left < 0 THEN Px(0) ELSE style.left
        left2 == IF rect.right > 2 * window.innerWidth
                 THEN Px(2 * window.innerWidth - rect.right) ELSE left1
        top1 == IF rect.top < 0 THEN Px(0) ELSE style.top
        top2 == IF rect.bottom > 2 * window.innerHeight
                THEN Px(2 * window.innerHeight - rect.bottom) ELSE top1
    IN  [style EXCEPT !.left = left2, !.top = top2]

constrainToViewport(style, size, window) ==
    LET rect == getBoundingClientRect(style, size)
        left1 == IF rect.left < 0 THEN Px(0) ELSE style.left
        left2 == IF rect.right > 2 * window.innerWidth
                 THEN Px(2 * window.innerWidth - rect.width) ELSE left1
        top1 == IF rect.top < 0 THEN Px(0) ELSE style.top
        top2 == IF rect.bottom > 2 * window.innerHeight
                THEN Px(2 * window.innerHeight - rect.height) ELSE top1
    IN  [style EXCEPT !.left = left2, !.top = top2]

(***************************************************************************)
(* Measured placement calculator                                           *)
(***************************************************************************)
\* getHorizontalPosition, in half pixels.
getHorizontalPosition(position, triggerRect, popoverRect) ==
    IF position = "block-end-trigger-inline-start"
    THEN 2 * triggerRect.left
    ELSE 2 * triggerRect.left + (triggerRect.width - popoverRect.width)

measuredApplyPlacementStyles_noHalf(style, placement, position, triggerRect, popoverRect) ==
    CASE placement = "top" ->
           [style EXCEPT
              !.top = Px(2 * (triggerRect.top - popoverRect.height - GAP)),
              !.left = Px(getHorizontalPosition(position, triggerRect, popoverRect))]
      [] placement = "bottom" ->
           [style EXCEPT
              !.top = Px(2 * (triggerRect.bottom + GAP)),
              !.left = Px(getHorizontalPosition(position, triggerRect, popoverRect))]
      [] placement = "left" ->
           [style EXCEPT
              !.left = Px(2 * (triggerRect.left - popoverRect.width - GAP)),
              !.top = Px(2 * triggerRect.top
                         + 2 * (triggerRect.height - popoverRect.height))]
      [] placement = "right" ->
           [style EXCEPT
              !.left = Px(2 * (triggerRect.right + GAP)),
              !.top = Px(2 * triggerRect.top
                         + 2 * (triggerRect.height - popoverRect.height))]

\* applyPlacementStyles of the measured variant: explicit top and left from
\* the popover's measured width and height.
measuredApplyPlacementStyles(style, placement, position, triggerRect, popoverRect) ==
    CASE placement = "top" ->
           [style EXCEPT
              !.top = Px(2 * (triggerRect.top - popoverRect.height - GAP)),
              !.left = Px(getHorizontalPosition(position, triggerRect, popoverRect))]
      [] placement = "bottom" ->
           [style EXCEPT
              !.top = Px(2 * (triggerRect.bottom + GAP)),
              !.left = Px(getHorizontalPosition(position, triggerRect, popoverRect))]
      [] placement = "left" ->
           [style EXCEPT
              !.left = Px(2 * (triggerRect.left - popoverRect.width - GAP)),
              !.top = Px(2 * triggerRect.top
                         + (triggerRect.height - popoverRect.height))]
      [] placement = "right" ->
           [style EXCEPT
              !.left = Px(2 * (triggerRect.right + GAP)),
              !.top = Px(2 * triggerRect.top
                         + (triggerRect.height - popoverRect.height))]

measuredApplyPlacement_noClamp(style, popoverRect, triggerRect, window, position) ==
    LET available == getAvailableSpace(triggerRect, window)
        placement == getPlacementFromPosition(position, available)
        reset == [style EXCEPT !.top = Unset, !.left = Unset, !.right = Unset,
                               !.bottom = Unset, !.position = "fixed"]
    IN  measuredApplyPlacementStyles(reset, placement, position, triggerRect,
                                     popoverRect)

\* applyPlacement of the measured variant: placement followed by the clamp.
measuredApplyPlacement(style, popoverRect, triggerRect, window, position) ==
    LET available == getAvailableSpace(triggerRect, window)
        placement == getPlacementFromPosition(position, available)
        reset == [style EXCEPT !.top = Unset, !.left = Unset, !.right = Unset,
                               !.bottom = Unset, !.position = "fixed"]
        placed == measuredApplyPlacementStyles(reset, placement, position,
                                               triggerRect, popoverRect)
    IN  constrainToViewport(placed, popoverRect, window)

(***************************************************************************)
(* The Popover component's layout effect                                   *)
(***************************************************************************)
\* A prop that was not passed.
Undefined == "undefined"
TLinkToTrigger == {"name", "description", "none"}

\* const attribute = { name, description, none: null }
attribute(linkToTrigger) ==
    CASE linkToTrigger = "name" -> "aria-labelledby"
      [] linkToTrigger = "description" -> "aria-describedby"
      [] linkToTrigger = "none" -> "null"

\* hasWindow: typeof window !== 'undefined'; cssSupports: the answer of
\* CSS.supports('position-area', 'top').
supportsAnchorPositioning(hasWindow, cssSupports) ==
    IF ~hasWindow THEN FALSE ELSE cssSupports

useNativePositioning_whenSupported(supports, fallbackStrategy) ==
    supports

\* supportsAnchorPositioning() && !fallbackStrategy
useNativePositioning(supports, fallbackStrategy) ==
    supports /\ fallbackStrategy = Undefined

\* What one run of the effect sets up: the cleanup functions it collects, in
\* order, each named by the call that returned it, and the classes it adds.
useLayoutEffect(supports, fallbackStrategy, linkToTrigger, position) ==
    LET linked ==
            IF attribute(linkToTrigger) # "null"
            THEN <<[fn |-> "setAttribute", element |-> "trigger",
                    name |-> attribute(linkToTrigger)]>>
            ELSE <<>>
        native == useNativePositioning(supports, fallbackStrategy)
        strategy == IF fallbackStrategy = Undefined
                    THEN "update-on-change" ELSE fallbackStrategy
        positioned ==
            IF native
            THEN <<[fn |-> "setStyle", element |-> "trigger",
                    name |-> "anchor-name"],
                   [fn |-> "setStyle", element |-> "popover",
                    name |-> "position-anchor"]>>
            ELSE <<[fn |-> "bindFallbackPositioning", element |-> "popover",
                    name |-> strategy]>>
    IN  [cleanupFns |-> linked \o positioned,
         classList |-> IF native THEN {position} ELSE {},
         shown |-> TRUE]

(***************************************************************************)
(* DOM writes that return their own undo                                   *)
(***************************************************************************)
\* JavaScript values that are null or a string; a string is the sequence of
\* its parts, '' the empty sequence.
Null == [null |-> TRUE, string |-> <<>>]
String(s) == [null |-> FALSE, string |-> s]

StyleProperties == {"anchor-name", "position-anchor"}
Attributes == {"aria-labelledby", "aria-describedby"}

\* An element: its inline style declarations ('' for a property it does not
\* have) with their priority ('' or 'important'), its attributes (null for an attribute it does not have) and its
\* class list.
NewElement ==
    [style |-> [p \in StyleProperties |-> <<>>],
     priority |-> [p \in StyleProperties |-> ""],
     attributes |-> [a \in Attributes |-> Null],
     classList |-> {}]

\* element.style.setProperty(property, value): '' removes the declaration.
setProperty(element, property, value) ==
    [element EXCEPT !.style[property] = value, !.priority[property] = ""]

removeProperty(element, property) ==
    [element EXCEPT !.style[property] = <<>>, !.priority[property] = ""]

\* The cleanup function setStyle returns, as the values it closes over.
setStyleCleanup(target, element, property) ==
    [fn |-> "setStyle", element |-> target, name |-> property,
     previous |-> String(element.style[property])]

setAttributeCleanup(target, element, attribute_) ==
    [fn |-> "setAttribute", element |-> target, name |-> attribute_,
     previous |-> element.attributes[attribute_]]

\* element.setAttribute(attribute, value)
elementSetAttribute(element, attribute_, value) ==
    [element EXCEPT !.attributes[attribute_] = String(value)]

removeAttribute(element, attribute_) ==
    [element EXCEPT !.attributes[attribute_] = Null]

cleanupOf_keepsValue(element, fn) ==
    element

\* Calling a cleanup function of setStyle or setAttribute on its element.
cleanupOf(element, fn) ==
    IF fn.fn = "setStyle"
    THEN IF fn.previous.string = <<>>
         THEN removeProperty(element, fn.name)
         ELSE setProperty(element, fn.name, fn.previous.string)
    ELSE IF fn.previous.null
         THEN removeAttribute(element, fn.name)
         ELSE elementSetAttribute(element, fn.name, fn.previous.string)

\* setStyle(element, { property, value }): the element after the write and
\* the cleanup function returned; target names the element the cleanup
\* function closes over.
setStyle(target, element, property, value) ==
    [element |-> setProperty(element, property, value),
     cleanup |-> setStyleCleanup(target, element, property)]

\* setAttribute(element, { attribute, value })
setAttribute(target, element, attribute_, value) ==
    [element |-> elementSetAttribute(element, attribute_, value),
     cleanup |-> setAttributeCleanup(target, element, attribute_)]

\* The cleanup function of a fallback binding: the Disposer, which writes to
\* neither element.
DisposerCleanup(chosen) ==
    [fn |-> "bindFallbackPositioning", element |-> "popover", name |-> chosen,
     previous |-> Null]

\* One cleanup function called on the trigger and popover of dom; called
\* lists the functions called so far.
callCleanup(dom, fn) ==
    LET done == [dom EXCEPT !.called = Append(@, fn)]
    IN  IF fn.fn = "bindFallbackPositioning" THEN done
        ELSE [done EXCEPT ![fn.element] = cleanupOf(@, fn)]

RECURSIVE combine_reversed(_, _)
combine_reversed(dom, cleanupFns) ==
    IF cleanupFns = <<>> THEN dom
    ELSE callCleanup(combine_reversed(dom, Tail(cleanupFns)), Head(cleanupFns))

\* Calling the function combine(...cleanupFns) returns:
\* for (const fn of cleanupFns) fn()
RECURSIVE combine(_, _)
combine(dom, cleanupFns) ==
    IF cleanupFns = <<>> THEN dom
    ELSE combine(callCleanup(dom, Head(cleanupFns)), Tail(cleanupFns))

\* `--anchor-name-${CSS.escape(id)}`
AnchorNameOf(id) == <<"--anchor-name-", id>>

\* One run of the Popover's layout effect on its trigger and popover
\* elements: the elements after it and the cleanup functions collected.
layoutEffect(trigger, popover, id, supports, fallbackStrategy, linkToTrigger, position) ==
    LET ariaAttribute == attribute(linkToTrigger)
        linked == setAttribute("trigger", trigger, ariaAttribute, <<id>>)
        trigger1 == IF ariaAttribute # "null" THEN linked.element ELSE trigger
        fns1 == IF ariaAttribute # "null" THEN <<linked.cleanup>> ELSE <<>>
        existingAnchorName == trigger1.style["anchor-name"]
        triggerAnchorName == IF existingAnchorName # <<>>
                             THEN existingAnchorName ELSE AnchorNameOf(id)
        named == setStyle("trigger", trigger1, "anchor-name", triggerAnchorName)
        anchored == setStyle("popover", popover, "position-anchor",
                             triggerAnchorName)
        chosen == IF fallbackStrategy = Undefined
                  THEN "update-on-change" ELSE fallbackStrategy
    IN  IF useNativePositioning(supports, fallbackStrategy)
        THEN [trigger |-> named.element,
              popover |-> [anchored.element EXCEPT
                             !.classList = @ \cup {position}],
              cleanupFns |-> fns1 \o <<named.cleanup, anchored.cleanup>>]
        ELSE [trigger |-> trigger1,
              popover |-> popover,
              cleanupFns |-> fns1 \o <<DisposerCleanup(chosen)>>]

(***************************************************************************)
(* State                                                                   *)
(***************************************************************************)
VARIABLES
    bound,          \* bindFallbackPositioning has been called
    strategy,       \* the strategy it was called with
    position,       \* the logical position it was called with
    triggerRect,    \* trigger.getBoundingClientRect(), live
    window,         \* window.innerWidth / innerHeight, live
    style,          \* the popover's inline style
    styleBefore,    \* the popover's inline style when bind was called
    triggerElement, \* the trigger's inline style and attributes
    popovers,       \* the Popover components on the trigger, by instance
    listeners,      \* event types of window that have our listener
    isRunning,      \* closure variable of bindUpdateEachFrame
    frameId,        \* closure variable of bindUpdateEachFrame (0: unassigned)
    rafCallbacks,   \* handles in the document's map of animation frame callbacks
    nextHandle,     \* the document's animation frame callback identifier
    passes,         \* number of calls of updateFn so far
    events,         \* scroll and resize events delivered to window since bind
    frames,         \* animation frames delivered since bind
    disposeCalls,   \* number of calls of the returned cleanup function
    disposedInPass, \* the cleanup function was called by updateFn itself
    call            \* the latest call of a pure function, with its result

vars == <<bound, strategy, position, triggerRect, window, style, styleBefore,
          triggerElement, listeners, isRunning, frameId, rafCallbacks, nextHandle, passes,
          events, frames, disposeCalls, disposedInPass, call, popovers>>

schedulerVars == <<bound, strategy, position, triggerRect, window, style,
                   styleBefore, triggerElement, listeners, isRunning, frameId,
                   rafCallbacks, nextHandle, passes, events, frames,
                   disposeCalls, disposedInPass>>

\* Trigger rectangles and window sizes of the scheduler runs: the trigger near
\* each corner, reaching past the left edge, with an odd width.
TriggerRects == {DOMRect(l, t, 21, 10) : l \in {-5, 75}, t \in {5, 30}}
Windows == {Window(100, 50), Window(60, 50)}

\* Inline styles of the popover; positionAnchor stands for the properties no
\* calculator names.
NoStyle == [position |-> "", top |-> Unset, left |-> Unset, right |-> Unset,
            bottom |-> Unset, transform |-> "", positionAnchor |-> ""]
InlineStyles ==
    {NoStyle,
     [position |-> "absolute", top |-> Px(14), left |-> Unset,
      right |-> Px(6), bottom |-> Unset, transform |-> "scale(1)",
      positionAnchor |-> "--menu"]}

\* The trigger as the positioning core receives it: only its rectangle is
\* read.
\* The Popover instances that may be rendered on the one trigger.
PopoverIds == 1 .. MaxPopovers

TriggerElement == NewElement

\* A Popover component that is not rendered.
Unmounted == [open |-> FALSE, element |-> NewElement, cleanupFns |-> <<>>]

(***************************************************************************)
(* Update scheduler.  The operators work on a record c of the mutable      *)
(* state and an environment e = [triggerRect, window, position, strategy,  *)
(* callsCleanup]; callsCleanup says that this run of updateFn calls the    *)
(* cleanup function that bind returned, after it has placed the popover.   *)
(***************************************************************************)
Current ==
    [style |-> style, trigger |-> triggerElement, listeners |-> listeners,
     isRunning |-> isRunning,
     frameId |-> frameId, rafCallbacks |-> rafCallbacks,
     nextHandle |-> nextHandle, passes |-> passes,
     disposeCalls |-> disposeCalls, disposedInPass |-> disposedInPass]

Commit(c) ==
    /\ style' = c.style
    /\ triggerElement' = c.trigger
    /\ listeners' = c.listeners
    /\ isRunning' = c.isRunning
    /\ frameId' = c.frameId
    /\ rafCallbacks' = c.rafCallbacks
    /\ nextHandle' = c.nextHandle
    /\ passes' = c.passes
    /\ disposeCalls' = c.disposeCalls
    /\ disposedInPass' = c.disposedInPass

\* frameId = requestAnimationFrame(tick)
requestAnimationFrame(c) ==
    [c EXCEPT !.rafCallbacks = @ \cup {c.nextHandle},
              !.frameId = c.nextHandle,
              !.nextHandle = @ + 1]

cancelAnimationFrame(c, handle) ==
    [c EXCEPT !.rafCallbacks = @ \ {handle}]

\* The function bindUpdateEachFrame returns.
cleanup_noCancel(c) ==
    [c EXCEPT !.isRunning = FALSE]

cleanup_toggle(c) ==
    cancelAnimationFrame([c EXCEPT !.isRunning = ~@], c.frameId)

cleanup(c) ==
    cancelAnimationFrame([c EXCEPT !.isRunning = FALSE], c.frameId)

\* The function bindAll returns: removeEventListener for each binding.
unbindAll(c) ==
    [c EXCEPT !.listeners = {}]

Disposer(c, e) ==
    LET d == IF e.strategy = "update-each-frame" THEN cleanup(c) ELSE unbindAll(c)
    IN  [d EXCEPT !.disposeCalls = @ + 1]

updateFn_setsAnchorName(c, e) ==
    LET placed == [c EXCEPT
                     !.style = applyPlacement(c.style, e.triggerRect, e.window,
                                              e.position),
                     !.trigger.style["anchor-name"] = <<"--trigger">>,
                     !.passes = @ + 1]
    IN  IF e.callsCleanup
        THEN [Disposer(placed, e) EXCEPT !.disposedInPass = TRUE]
        ELSE placed

\* () => applyPlacement(popover, trigger, position)
updateFn(c, e) ==
    LET placed == [c EXCEPT
                     !.style = applyPlacement(c.style, e.triggerRect, e.window,
                                              e.position),
                     !.passes = @ + 1]
    IN  IF e.callsCleanup
        THEN [Disposer(placed, e) EXCEPT !.disposedInPass = TRUE]
        ELSE placed

tick_once(c, e) ==
    updateFn(c, e)

tick_alwaysReschedule(c, e) ==
    requestAnimationFrame(updateFn(c, e))

tick(c, e) ==
    LET updated == updateFn(c, e)
    IN  IF updated.isRunning THEN requestAnimationFrame(updated) ELSE updated

bindUpdateEachFrame_twice(c, e) ==
    requestAnimationFrame(requestAnimationFrame([c EXCEPT !.isRunning = TRUE]))

bindUpdateEachFrame(c, e) ==
    requestAnimationFrame([c EXCEPT !.isRunning = TRUE])

bindUpdateOnChange_scrollOnly(c, e) ==
    [updateFn(c, e) EXCEPT !.listeners = {"scroll"}]

bindUpdateOnChange(c, e) ==
    [updateFn(c, e) EXCEPT !.listeners = {"scroll", "resize"}]

bindPositionUpdates(c, e) ==
    IF e.strategy = "update-each-frame"
    THEN bindUpdateEachFrame(c, e)
    ELSE bindUpdateOnChange(c, e)

\* window dispatches an event of the given type to its listeners.
dispatchEvent(c, e, type) ==
    IF type \in c.listeners THEN updateFn(c, e) ELSE c

\* "Run the animation frame callbacks": every handle that was in the map
\* when the frame started and is still in it is removed and called, in order.
RECURSIVE runAnimationFrameCallbacks(_, _, _)
runAnimationFrameCallbacks(c, e, handles) ==
    IF handles = {} THEN c
    ELSE LET h == CHOOSE x \in handles : \A y \in handles : x <= y
             after == IF h \in c.rafCallbacks
                      THEN tick(cancelAnimationFrame(c, h), e)
                      ELSE c
         IN  runAnimationFrameCallbacks(after, e, handles \ {h})

Env(rect, win, callsCleanup) ==
    [triggerRect |-> rect, window |-> win, position |-> position,
     strategy |-> strategy, callsCleanup |-> callsCleanup]

(***************************************************************************)
(* Actions of the scheduler                                                *)
(***************************************************************************)
bindFallbackPositioning ==
    /\ ~bound
    /\ \E p \in TPosition, s \in TFallbackStrategy :
         /\ position' = p
         /\ strategy' = s
         /\ Commit(bindPositionUpdates(Current,
                [triggerRect |-> triggerRect, window |-> window,
                 position |-> p, strategy |-> s, callsCleanup |-> FALSE]))
    /\ bound' = TRUE
    /\ styleBefore' = style
    /\ UNCHANGED <<triggerRect, window, events, frames, call, popovers>>

\* The page scrolls: the trigger moves and window gets a scroll event.
ScrollEvent ==
    /\ bound
    /\ events < MaxEvents
    /\ \E rect \in TriggerRects, inPass \in BOOLEAN :
         /\ inPass => disposeCalls < MaxDisposeCalls
         /\ triggerRect' = rect
         /\ Commit(dispatchEvent(Current, Env(rect, window, inPass), "scroll"))
    /\ events' = events + 1
    /\ UNCHANGED <<bound, strategy, position, window, styleBefore, frames, call, popovers>>

\* The window is resized and gets a resize event.
ResizeEvent ==
    /\ bound
    /\ events < MaxEvents
    /\ \E win \in Windows, inPass \in BOOLEAN :
         /\ inPass => disposeCalls < MaxDisposeCalls
         /\ window' = win
         /\ Commit(dispatchEvent(Current, Env(triggerRect, win, inPass), "resize"))
    /\ events' = events + 1
    /\ UNCHANGED <<bound, strategy, position, triggerRect, styleBefore, frames,
                   call, popovers>>

\* The trigger moves without any event (a CSS transition).
Transition ==
    /\ bound
    /\ \E rect \in TriggerRects \ {triggerRect} : triggerRect' = rect
    /\ UNCHANGED <<bound, strategy, position, window, style, styleBefore,
                   triggerElement, listeners, isRunning, frameId,
                   rafCallbacks, nextHandle, passes, events, frames,
                   disposeCalls, disposedInPass, call, popovers>>

\* The browser delivers an animation frame.
AnimationFrame ==
    /\ bound
    /\ frames < MaxFrames
    /\ \E inPass \in BOOLEAN :
         /\ inPass => disposeCalls < MaxDisposeCalls
         /\ Commit(runAnimationFrameCallbacks(
                Current, Env(triggerRect, window, inPass), rafCallbacks))
    /\ frames' = frames + 1
    /\ UNCHANGED <<bound, strategy, position, triggerRect, window, styleBefore,
                   events, call, popovers>>

\* The caller calls the cleanup function bind returned.
Dispose ==
    /\ bound
    /\ disposeCalls < MaxDisposeCalls
    /\ Commit(Disposer(Current, Env(triggerRect, window, FALSE)))
    /\ UNCHANGED <<bound, strategy, position, triggerRect, window, styleBefore,
                   events, frames, call, popovers>>

Idle == [fn |-> "none"]

Init ==
    /\ bound = FALSE
    /\ strategy = "update-on-change"
    /\ position = "block-end"
    /\ triggerRect \in TriggerRects
    /\ window \in Windows
    /\ style \in InlineStyles
    /\ styleBefore = style
    /\ triggerElement = TriggerElement
    /\ listeners = {}
    /\ isRunning = FALSE
    /\ frameId = 0
    /\ rafCallbacks = {}
    /\ nextHandle = 1
    /\ passes = 0
    /\ events = 0
    /\ frames = 0
    /\ disposeCalls = 0
    /\ disposedInPass = FALSE
    /\ call = Idle
    /\ popovers = [i \in PopoverIds |-> Unmounted]

Next ==
    \/ bindFallbackPositioning
    \/ ScrollEvent
    \/ ResizeEvent
    \/ Transition
    \/ AnimationFrame
    \/ Dispose

Spec == Init /\ [][Next]_vars

(***************************************************************************)
(* The pure functions, called on inputs from bounded sets.  `call` records *)
(* the function, its arguments and its result.                             *)
(***************************************************************************)
Extents == (0 - MaxExtent) .. (MaxExtent + 1)
Sizes == 0 .. MaxSize
Spaces == (0 - 1) .. (MaxSize + MaxGap)
BoxOffsets == (0 - MaxBox) .. MaxBox
BoxSizes == 0 .. MaxBox
WindowSizes == 1 .. MaxBox

FixedAt(l, t) ==
    [NoStyle EXCEPT !.position = "fixed", !.left = Px(2 * l), !.top = Px(2 * t)]

CallGetAvailableSpace ==
    /\ call = Idle
    /\ \E l \in Extents, t \in Extents, w \in Sizes, h \in Sizes,
       iw \in 0 .. MaxExtent, ih \in 0 .. MaxExtent :
        call' = [fn |-> "getAvailableSpace",
                 triggerRect |-> DOMRect(l, t, w, h),
                 window |-> Window(iw, ih),
                 result |-> getAvailableSpace(DOMRect(l, t, w, h), Window(iw, ih))]

CallGetPlacementFromPosition ==
    /\ call = Idle
    /\ \E p \in TPosition,
       a \in [top : Extents, right : Extents, bottom : Extents, left : Extents] :
        call' = [fn |-> "getPlacementFromPosition",
                 position |-> p,
                 available |-> a,
                 result |-> getPlacementFromPosition(p, a)]

CallGetBestBasePlacement ==
    /\ call = Idle
    /\ \E d \in TBasePlacement,
       a \in [top : Spaces, right : Spaces, bottom : Spaces, left : Spaces],
       w \in Sizes, h \in Sizes, gap \in 0 .. MaxGap :
        call' = [fn |-> "getBestBasePlacement",
                 desired |-> d,
                 available |-> a,
                 popoverRect |-> DOMRect(0, 0, w, h),
                 gap |-> gap,
                 result |-> getBestBasePlacement(d, a, DOMRect(0, 0, w, h), gap)]

CallConstrainToViewport ==
    /\ call = Idle
    /\ \E l \in BoxOffsets, t \in BoxOffsets, w \in BoxSizes, h \in BoxSizes,
       iw \in WindowSizes, ih \in WindowSizes :
        call' = [fn |-> "constrainToViewport",
                 style |-> FixedAt(l, t),
                 size |-> [width |-> w, height |-> h],
                 window |-> Window(iw, ih),
                 result |-> constrainToViewport(FixedAt(l, t),
                                                [width |-> w, height |-> h],
                                                Window(iw, ih))]

\* The clamp runs again on the style the first run left behind.
CallConstrainToViewportAgain ==
    /\ call.fn = "constrainToViewport"
    /\ call' = [fn |-> "constrainToViewport again",
                style |-> call.style,
                first |-> call.result,
                size |-> call.size,
                window |-> call.window,
                result |-> constrainToViewport(call.result, call.size,
                                               call.window)]

\* Geometry of the arrow calls: a 4 x 4 trigger in a 40 x 40 window, with a
\* popover that needs 10 or 20 pixels on its axis.
ArrowTriggerRects == {DOMRect(l, t, 4, 4) : l \in {0, 10, 20, 36}, t \in {0, 10, 20, 36}}
ArrowPopoverRects == {DOMRect(0, 0, w, h) : w \in {2, 12}, h \in {2, 12}}
ArrowWindow == Window(40, 40)

CallCalculateAndApplyPlacement ==
    /\ call = Idle
    /\ \E d \in TPlacement, rect \in ArrowTriggerRects, pop \in ArrowPopoverRects,
          before \in InlineStyles :
        call' = [fn |-> "calculateAndApplyPlacement",
                 desiredPlacement |-> d,
                 triggerRect |-> rect,
                 popoverRect |-> pop,
                 window |-> ArrowWindow,
                 available |-> getAvailableSpace(rect, ArrowWindow),
                 actualPlacement |-> actualPlacement(d, rect, pop, ArrowWindow),
                 result |-> calculateAndApplyPlacement(before, rect, pop,
                                                       ArrowWindow, d)]

\* Geometry of the calls of the simple calculator: the triggers of the
\* documented scenarios and a small odd-sized one, in a large and a small
\* window.
SimpleTriggerRects ==
    {DOMRect(10, 10, 100, 30), DOMRect(980, 780, 20, 20), DOMRect(3, 5, 7, 9),
     DOMRect(15, 14, 3, 5)}
SimpleWindows == {Window(1000, 800), Window(20, 20)}
PopoverSizes == {[width |-> w, height |-> h] : w \in {3, 200}, h \in {5, 100}}

CallApplyPlacement ==
    /\ call = Idle
    /\ \E p \in TPosition, rect \in SimpleTriggerRects, win \in SimpleWindows,
          size \in PopoverSizes, before \in InlineStyles :
        call' = [fn |-> "applyPlacement",
                 position |-> p,
                 triggerRect |-> rect,
                 window |-> win,
                 size |-> size,
                 before |-> before,
                 placement |-> getPlacementFromPosition(
                                   p, getAvailableSpace(rect, win)),
                 result |-> applyPlacementOn(HTMLElement(before, size), rect,
                                             win, p).style]

CallUseLayoutEffect ==
    /\ call = Idle
    /\ \E hasWindow \in BOOLEAN, cssSupports \in BOOLEAN,
          fs \in TFallbackStrategy \cup {Undefined},
          link \in TLinkToTrigger, p \in TPosition :
        call' = [fn |-> "useLayoutEffect",
                 supports |-> supportsAnchorPositioning(hasWindow, cssSupports),
                 cssSupports |-> cssSupports,
                 fallbackStrategy |-> fs,
                 linkToTrigger |-> link,
                 position |-> p,
                 result |-> useLayoutEffect(
                               supportsAnchorPositioning(hasWindow, cssSupports),
                               fs, link, p)]

CallMeasuredApplyPlacement ==
    /\ call = Idle
    /\ \E p \in TPosition, rect \in SimpleTriggerRects, win \in SimpleWindows,
          size \in PopoverSizes, before \in InlineStyles :
        LET placement == getPlacementFromPosition(p, getAvailableSpace(rect, win))
            reset == [before EXCEPT !.top = Unset, !.left = Unset,
                                    !.right = Unset, !.bottom = Unset,
                                    !.position = "fixed"]
        IN  call' = [fn |-> "measuredApplyPlacement",
                     position |-> p,
                     triggerRect |-> rect,
                     window |-> win,
                     size |-> size,
                     before |-> before,
                     placement |-> placement,
                     placed |-> measuredApplyPlacementStyles(
                                    reset, placement, p, rect, size),
                     result |-> measuredApplyPlacement(before, size, rect, win, p)]

\* Both simple calculators' applyPlacementStyles on a fixed popover without a
\* transform, for every side and position.
CallApplyPlacementStyles ==
    /\ call = Idle
    /\ \E placement \in TBasePlacement, p \in TPosition,
          rect \in SimpleTriggerRects, size \in PopoverSizes :
        call' = [fn |-> "applyPlacementStyles",
                 placement |-> placement,
                 position |-> p,
                 triggerRect |-> rect,
                 size |-> size,
                 transform |-> applyPlacementStyles(
                                   FixedAt(0, 0), placement, p, rect),
                 measured |-> measuredApplyPlacementStyles(
                                  FixedAt(0, 0), placement, p, rect, size)]

\* Values of an inline style property and of an attribute before and in a
\* call of setStyle or setAttribute.
StyleValues == {<<>>, <<"--page-anchor">>, AnchorNameOf("1")}
AttributeValues == {Null, String(<<>>), String(<<"1">>), String(<<"2">>)}

\* setStyle on an element, then the cleanup function it returned.
CallSetStyle ==
    /\ call = Idle
    /\ \E property \in StyleProperties, prior \in StyleValues,
          priority \in {"", "important"}, value \in StyleValues :
        /\ prior = <<>> => priority = ""
        /\ LET element == [NewElement EXCEPT !.style[property] = prior,
                                             !.priority[property] = priority]
               written == setStyle("trigger", element, property, value)
           IN  call' = [fn |-> "setStyle",
                        name |-> property,
                        value |-> value,
                        element |-> element,
                        written |-> written.element,
                        result |-> cleanupOf(written.element, written.cleanup)]

\* setAttribute on an element, then the cleanup function it returned.
CallSetAttribute ==
    /\ call = Idle
    /\ \E attribute_ \in Attributes, prior \in AttributeValues,
          value \in AttributeValues \ {Null} :
        LET element == [NewElement EXCEPT !.attributes[attribute_] = prior]
            written == setAttribute("trigger", element, attribute_, value.string)
        IN  call' = [fn |-> "setAttribute",
                     name |-> attribute_,
                     value |-> value.string,
                     element |-> element,
                     written |-> written.element,
                     result |-> cleanupOf(written.element, written.cleanup)]

\* Cleanup functions as the Popover's effect collects them.
CleanupFns ==
    {setAttributeCleanup("trigger", NewElement, "aria-describedby"),
     setStyleCleanup("trigger", NewElement, "anchor-name"),
     setStyleCleanup("popover", NewElement, "position-anchor"),
     DisposerCleanup("update-on-change")}

RECURSIVE SeqsUpTo(_, _)
SeqsUpTo(S, n) ==
    IF n = 0 THEN {<<>>}
    ELSE LET shorter == SeqsUpTo(S, n - 1)
         IN  shorter \cup {Append(s, x) : s \in shorter, x \in S}

\* combine(...cleanupFns)() on a trigger and a popover that carry values.
CallCombine ==
    /\ call = Idle
    /\ \E cleanupFns \in SeqsUpTo(CleanupFns, MaxCleanupFns) :
        call' = [fn |-> "combine",
                 cleanupFns |-> cleanupFns,
                 result |-> combine(
                     [trigger |-> setProperty(
                                      elementSetAttribute(
                                          NewElement, "aria-describedby", <<"1">>),
                                      "anchor-name", AnchorNameOf("1")),
                      popover |-> setProperty(NewElement, "position-anchor",
                                              AnchorNameOf("1")),
                      called |-> <<>>],
                     cleanupFns)]

\* The decomposition functions on a full placement and the composition on a
\* base and an alignment.
CallPlacementRoundTrip ==
    /\ call = Idle
    /\ \E p \in TPlacement, b \in TBasePlacement, a \in TAlignment :
        call' = [fn |-> "buildPlacement",
                 placement |-> p,
                 rebuilt |-> buildPlacement(getBasePlacement(p), getAlignment(p)),
                 base |-> b,
                 alignment |-> a,
                 built |-> buildPlacement(b, a),
                 builtBase |-> getBasePlacement(buildPlacement(b, a)),
                 builtAlignment |-> getAlignment(buildPlacement(b, a)),
                 opposite |-> getOppositePlacement(b),
                 oppositeTwice |-> getOppositePlacement(getOppositePlacement(b))]

InitPure ==
    /\ bound = FALSE
    /\ strategy = "update-on-change"
    /\ position = "block-end"
    /\ triggerRect = DOMRect(75, 5, 21, 10)
    /\ window = Window(100, 50)
    /\ style = NoStyle
    /\ styleBefore = NoStyle
    /\ triggerElement = TriggerElement
    /\ listeners = {}
    /\ isRunning = FALSE
    /\ frameId = 0
    /\ rafCallbacks = {}
    /\ nextHandle = 1
    /\ passes = 0
    /\ events = 0
    /\ frames = 0
    /\ disposeCalls = 0
    /\ disposedInPass = FALSE
    /\ call = Idle
    /\ popovers = [i \in PopoverIds |-> Unmounted]

NextPure ==
    /\ UNCHANGED schedulerVars
    /\ UNCHANGED popovers
    /\ \/ CallGetAvailableSpace
       \/ CallGetPlacementFromPosition
       \/ CallGetBestBasePlacement
       \/ CallConstrainToViewport
       \/ CallConstrainToViewportAgain
       \/ CallCalculateAndApplyPlacement
       \/ CallApplyPlacement
       \/ CallUseLayoutEffect
       \/ CallMeasuredApplyPlacement
       \/ CallApplyPlacementStyles
       \/ CallSetStyle
       \/ CallSetAttribute
       \/ CallCombine
       \/ CallPlacementRoundTrip

SpecPure == InitPure /\ [][NextPure]_vars

(***************************************************************************)
(* Properties                                                              *)
(***************************************************************************)

\* C1: once the cleanup function returned by bind has been called, no later
\* scroll event, resize event or animation frame runs a placement pass, and
\* the popover's inline style is not written again.
C1_NoPassAfterDispose ==
    [][disposeCalls > 0 => (passes' = passes /\ style' = style)]_vars

\* Under update-each-frame the cleanup function was called before the first
\* frame, and frames and events were delivered afterwards.
C1_Witness ==
    /\ strategy = "update-each-frame"
    /\ disposeCalls > 0
    /\ passes = 0
    /\ frames > 0
    /\ events > 0

\* C2: binding with update-each-frame has run a placement pass by the time
\* bind returns, before any animation frame is delivered.
C2_ImmediatePassEachFrame ==
    (bound /\ strategy = "update-each-frame") => passes >= 1

\* C3: under update-on-change one pass runs before bind returns and one pass
\* per scroll or resize event delivered while bound: n events, n + 1 passes.
C3_OnePassPerEvent ==
    (bound /\ strategy = "update-on-change" /\ disposeCalls = 0)
        => passes = events + 1

C3_Witness ==
    /\ bound
    /\ strategy = "update-on-change"
    /\ disposeCalls = 0
    /\ events >= 2
    /\ passes >= 3

\* C4: a second or later call of the cleanup function changes nothing: no
\* listener is added, no frame is requested, no placement pass runs.
C4_DisposeIdempotent ==
    [][(disposeCalls >= 1 /\ disposeCalls' = disposeCalls + 1)
          => UNCHANGED <<style, listeners, isRunning, frameId, rafCallbacks,
                         nextHandle, passes>>]_vars

\* The cleanup function of an update-each-frame binding was called twice
\* while frames were being delivered.
C4_Witness ==
    /\ strategy = "update-each-frame"
    /\ disposeCalls >= 2
    /\ passes >= 1

\* C5: when updateFn itself calls the cleanup function, that pass is the last
\* one: the running tick requests no next frame, no listener stays on
\* window, and no later step runs updateFn.
C5_DisposeInsidePassIsLast ==
    [][disposedInPass' =>
          /\ rafCallbacks' = {}
          /\ listeners' = {}
          /\ (disposedInPass => passes' = passes)]_vars

\* The first tick called the cleanup function and a further frame was
\* delivered after it.
C5_Witness ==
    /\ strategy = "update-each-frame"
    /\ disposedInPass
    /\ passes = 1
    /\ frames >= 2

\* C6: after bind followed by the cleanup function, the popover's inline
\* position, top, left, right, bottom and transform are what they were
\* immediately before bind.
C6_DisposeRestoresStyle ==
    disposeCalls > 0 => style = styleBefore

\* C7: getAvailableSpace is additive on both axes and keeps negative
\* components negative.
C7_SpaceAdditive ==
    call.fn = "getAvailableSpace" =>
        LET R == call.triggerRect
            V == call.window
            a == call.result
        IN  /\ a.left + a.right + R.width = V.innerWidth
            /\ a.top + a.bottom + R.height = V.innerHeight
            /\ R.left < 0 => a.left < 0
            /\ R.top < 0 => a.top < 0
            /\ R.right > V.innerWidth => a.right < 0
            /\ R.bottom > V.innerHeight => a.bottom < 0

\* A trigger that starts left of the viewport and ends below it.
C7_Witness ==
    /\ call.fn = "getAvailableSpace"
    /\ call.triggerRect.left < 0
    /\ call.triggerRect.bottom > call.window.innerHeight
    /\ call.result.left < 0
    /\ call.result.bottom < 0

\* C8: inline-end yields right exactly when right >= left and left otherwise;
\* the block positions yield bottom exactly when bottom >= top and top
\* otherwise.
C8_SimpleBestSide ==
    call.fn = "getPlacementFromPosition" =>
        LET a == call.available
        IN  IF call.position = "inline-end"
            THEN /\ call.result \in {"right", "left"}
                 /\ call.result = "right" <=> a.right >= a.left
            ELSE /\ call.result \in {"bottom", "top"}
                 /\ call.result = "bottom" <=> a.bottom >= a.top

\* A tie on the inline axis while the block axis has more room.
C8_Witness ==
    /\ call.fn = "getPlacementFromPosition"
    /\ call.position = "inline-end"
    /\ call.available.left = call.available.right
    /\ call.available.bottom > call.available.right
    /\ call.result = "right"

\* C9: getBestBasePlacement returns one of top, right, bottom, left for every
\* desired side, available space, popover size and gap.
C9_BestBasePlacementTotal ==
    call.fn = "getBestBasePlacement" => call.result \in TBasePlacement

\* All four sides have negative space, so nothing fits.
C9_Witness ==
    /\ call.fn = "getBestBasePlacement"
    /\ call.available.top < 0
    /\ call.available.right < 0
    /\ call.available.bottom < 0
    /\ call.available.left < 0
    /\ call.result \in TBasePlacement

C11_OversizedEndsAtZero ==
    call.fn = "constrainToViewport" =>
        /\ call.size.width > call.window.innerWidth
              => call.result.left = Px(0)
        /\ call.size.height > call.window.innerHeight
              => call.result.top = Px(0)

\* C12: the placement the arrow calculator applies has the alignment of the
\* desired placement; only its base side may differ.  Desired top-start with
\* too little room above and enough below is applied as bottom-start.
C12_AlignmentPreserved ==
    call.fn = "calculateAndApplyPlacement" =>
        /\ call.actualPlacement \in TPlacement
        /\ getAlignment(call.actualPlacement) = getAlignment(call.desiredPlacement)
        /\ (/\ call.desiredPlacement = Chars("top") \o Chars("-start")
            /\ call.available.top < call.popoverRect.height + ARROW_GAP
            /\ call.available.bottom >= call.popoverRect.height + ARROW_GAP)
              => call.actualPlacement = Chars("bottom") \o Chars("-start")

\* top-start was desired and bottom-start was applied.
C12_Witness ==
    /\ call.fn = "calculateAndApplyPlacement"
    /\ call.desiredPlacement = Chars("top") \o Chars("-start")
    /\ call.actualPlacement = Chars("bottom") \o Chars("-start")
    /\ call.result.top = Px(2 * (call.triggerRect.bottom + ARROW_GAP))
    /\ call.result.left = Px(2 * call.triggerRect.left)

\* The popover drawn in v sits on the given side of the trigger R with its
\* facing edge `gap` pixels from the trigger's edge and, when centered, with
\* its middle on the trigger's middle along the other axis.
GapAndCenter(v, R, side, gap, centered) ==
    /\ side = "top" => 2 * R.top - v.bottom = 2 * gap
    /\ side = "bottom" => v.top - 2 * R.bottom = 2 * gap
    /\ side = "left" => 2 * R.left - v.right = 2 * gap
    /\ side = "right" => v.left - 2 * R.right = 2 * gap
    /\ (centered /\ side \in {"top", "bottom"})
          => v.left + v.right = 2 * (R.left + R.right)
    /\ (centered /\ side \in {"left", "right"})
          => v.top + v.bottom = 2 * (R.top + R.bottom)

\* C13: the calculators put the popover's trigger-facing edge 4px (simple
\* variant) or 8px (arrow variant) from the trigger's edge on the chosen side
\* and center it on the other axis when the alignment is center.  The
\* trigger {top: 10, left: 10, right: 110, bottom: 40} placed right gives
\* left = 114 and a vertical center at 25.
C13_GapAndCenter ==
    /\ call.fn = "applyPlacement" =>
        /\ GapAndCenter(visualRect(call.result, call.size), call.triggerRect,
                        call.placement, 4,
                        \/ call.placement \in {"left", "right"}
                        \/ call.position # "block-end-trigger-inline-start")
        /\ (call.triggerRect = DOMRect(10, 10, 100, 30) /\ call.placement = "right")
              => /\ call.result.left = Px(2 * 114)
                 /\ LET v == visualRect(call.result, call.size)
                    IN  v.top + v.bottom = 2 * (2 * 25)
    /\ call.fn = "calculateAndApplyPlacement" =>
        GapAndCenter(visualRect(call.result, call.popoverRect), call.triggerRect,
                     getBasePlacement(call.actualPlacement), 8,
                     getAlignment(call.actualPlacement) = "center")

\* The documented scenario: inline-end in a 1000 x 800 window, placed right.
C13_Witness ==
    /\ call.fn = "applyPlacement"
    /\ call.triggerRect = DOMRect(10, 10, 100, 30)
    /\ call.window = Window(1000, 800)
    /\ call.position = "inline-end"
    /\ call.placement = "right"
    /\ call.result.left = Px(228)

\* C14: bind, every placement pass and the Disposer write nothing but the
\* popover's inline position, top, left, right, bottom and transform: the
\* popover's other inline properties and the trigger's style and attributes
\* stay as they were in every step.
C14_FrameOfBind ==
    [][/\ triggerElement' = triggerElement
       /\ style'.positionAnchor = style.positionAnchor]_vars

\* Passes and a dispose on a popover that had inline styles of its own.
C14_Witness ==
    /\ passes >= 2
    /\ disposeCalls >= 1
    /\ style # styleBefore
    /\ style.positionAnchor = "--menu"
    /\ triggerElement = TriggerElement

\* The cleanup functions of an effect run that come from the given call.
CleanupsFrom(result, fn) ==
    {i \in 1 .. Len(result.cleanupFns) : result.cleanupFns[i].fn = fn}

\* C15: a run of the Popover's effect sets up exactly one positioning path:
\* the native one (anchor-name and position-anchor set, classes added, no
\* fallback bound) if and only if anchor positioning is supported and no
\* fallbackStrategy was passed; otherwise exactly one fallback binding, with
\* the passed strategy or update-on-change, whose Disposer is among the
\* effect's cleanup functions.
C15_OnePositioningPath ==
    call.fn = "useLayoutEffect" =>
        LET native == call.supports /\ call.fallbackStrategy = Undefined
            bindings == CleanupsFrom(call.result, "bindFallbackPositioning")
            styles == CleanupsFrom(call.result, "setStyle")
        IN  /\ native => /\ bindings = {}
                         /\ Cardinality(styles) = 2
                         /\ call.result.classList = {call.position}
            /\ ~native =>
                 /\ Cardinality(bindings) = 1
                 /\ styles = {}
                 /\ call.result.classList = {}
                 /\ \A i \in bindings :
                      call.result.cleanupFns[i].name =
                          IF call.fallbackStrategy \in TFallbackStrategy
                          THEN call.fallbackStrategy
                          ELSE "update-on-change"

\* A supporting browser with a forced strategy binds the fallback; a browser
\* without support and without the prop binds update-on-change.
C15_Witness ==
    /\ call.fn = "useLayoutEffect"
    /\ call.supports
    /\ call.fallbackStrategy = "update-each-frame"
    /\ \E i \in 1 .. Len(call.result.cleanupFns) :
         /\ call.result.cleanupFns[i].fn = "bindFallbackPositioning"
         /\ call.result.cleanupFns[i].name = "update-each-frame"

\* The side fits the popover of the latest getBestBasePlacement call: its
\* available space is at least the popover's extent on that axis plus the gap.
Fits(side) ==
    call.available[side] >=
        (IF side \in {"top", "bottom"}
         THEN call.popoverRect.height ELSE call.popoverRect.width) + call.gap

Opposite(side) ==
    CASE side = "top" -> "bottom"
      [] side = "bottom" -> "top"
      [] side = "left" -> "right"
      [] side = "right" -> "left"

Perpendicular(side) ==
    IF side \in {"top", "bottom"} THEN {"left", "right"} ELSE {"top", "bottom"}

\* C16: getBestBasePlacement returns the desired side whenever it fits,
\* equality included, whatever the space on the other three sides.
C16_DesiredKeptWhenFits ==
    (call.fn = "getBestBasePlacement" /\ Fits(call.desired))
        => call.result = call.desired

\* The desired side fits exactly while another side has more room.
C16_Witness ==
    /\ call.fn = "getBestBasePlacement"
    /\ call.available[call.desired] = call.popoverRect.height + call.gap
    /\ call.desired = "top"
    /\ call.popoverRect.height + call.gap > 0
    /\ call.available.bottom > call.available.top
    /\ call.available.right > call.available.top
    /\ call.result = "top"

\* C17: when the desired side does not fit and the opposite side fits,
\* getBestBasePlacement returns the opposite side, even if a perpendicular side
\* fits too or has more space.
C17_OppositeSecond ==
    (/\ call.fn = "getBestBasePlacement"
     /\ ~Fits(call.desired)
     /\ Fits(Opposite(call.desired)))
        => call.result = Opposite(call.desired)

\* Left does not fit, right fits, and bottom fits with more space than right.
C17_Witness ==
    /\ call.fn = "getBestBasePlacement"
    /\ call.desired = "left"
    /\ ~Fits("left")
    /\ Fits("right")
    /\ Fits("bottom")
    /\ call.available.bottom > call.available.right
    /\ call.result = "right"

\* C18 as stated: when neither the desired side nor its opposite fits and a
\* perpendicular side fits, the result is a fitting perpendicular side with
\* at least as much space as every other fitting perpendicular side.
C18_PerpendicularMoreSpace ==
    (/\ call.fn = "getBestBasePlacement"
     /\ ~Fits(call.desired)
     /\ ~Fits(Opposite(call.desired))
     /\ \E s \in Perpendicular(call.desired) : Fits(s))
        => /\ call.result \in Perpendicular(call.desired)
           /\ Fits(call.result)
           /\ \A s \in Perpendicular(call.desired) :
                Fits(s) => call.available[call.result] >= call.available[s]

\* C18, amended: when neither the desired side nor its opposite fits, the
\* perpendicular sides are tried in a fixed order, right then left for a
\* desired top or bottom and bottom then top for a desired left or right, and
\* the first that fits is returned.
C18_PerpendicularFixedOrder ==
    (/\ call.fn = "getBestBasePlacement"
     /\ ~Fits(call.desired)
     /\ ~Fits(Opposite(call.desired)))
        => /\ (call.desired \in {"top", "bottom"} /\ Fits("right"))
                => call.result = "right"
           /\ (call.desired \in {"top", "bottom"} /\ ~Fits("right") /\ Fits("left"))
                => call.result = "left"
           /\ (call.desired \in {"left", "right"} /\ Fits("bottom"))
                => call.result = "bottom"
           /\ (call.desired \in {"left", "right"} /\ ~Fits("bottom") /\ Fits("top"))
                => call.result = "top"

\* Both perpendicular sides fit and left has strictly more space; right is
\* returned.
C18_Witness ==
    /\ call.fn = "getBestBasePlacement"
    /\ call.desired = "top"
    /\ ~Fits("top")
    /\ ~Fits("bottom")
    /\ Fits("right")
    /\ Fits("left")
    /\ call.available.left > call.available.right
    /\ call.result = "right"

\* C19: when none of the four sides fits, the side getBestBasePlacement
\* returns has the largest available space of the four.
C19_MostSpaceWhenNoneFits ==
    (call.fn = "getBestBasePlacement" /\ \A s \in TBasePlacement : ~Fits(s))
        => \A s \in TBasePlacement :
             call.available[call.result] >= call.available[s]

\* Nothing fits, the four spaces differ in part, and the largest one is
\* neither the desired side nor the first key.
C19_Witness ==
    /\ call.fn = "getBestBasePlacement"
    /\ \A s \in TBasePlacement : ~Fits(s)
    /\ call.desired = "top"
    /\ call.available.left > call.available.top
    /\ call.available.left > call.available.right
    /\ call.available.left > call.available.bottom
    /\ call.result = "left"

\* C20: under update-each-frame, while the cleanup function has not been
\* called, every delivered animation frame runs exactly one placement pass
\* and leaves exactly one requested frame, and at the end of the frame the
\* popover's style is the placement for the trigger's rectangle and the
\* window as they are then: fixed, on the side the position picks, GAP from
\* the trigger and centered as the position asks, for a popover of any size.
C20_EachFrameKeepsPlacing ==
    [][(/\ strategy = "update-each-frame"
        /\ frames' = frames + 1
        /\ disposeCalls' = 0)
          => /\ passes' = passes + 1
             /\ rafCallbacks' = {frameId'}
             /\ rafCallbacks' # rafCallbacks
             /\ isRunning'
             /\ style'.position = "fixed"
             /\ \A size \in PopoverSizes :
                  LET placement == getPlacementFromPosition(
                          position', getAvailableSpace(triggerRect', window'))
                  IN  GapAndCenter(
                          visualRect(style', size), triggerRect', placement, GAP,
                          \/ placement \in {"left", "right"}
                          \/ position' # "block-end-trigger-inline-start")]_vars

\* Three frames delivered without a dispose and without any scroll or resize
\* event, each with its pass.
C20_Witness ==
    /\ strategy = "update-each-frame"
    /\ disposeCalls = 0
    /\ events = 0
    /\ frames = 3
    /\ passes = 3
    /\ rafCallbacks # {}
    /\ style = applyPlacement(style, triggerRect, window, position)

\* C21: the top, left and transform a placement pass leaves depend only on
\* the geometry and position read in that pass: after every step that ran a
\* pass they are what a pass on a popover with no inline style at all would
\* write for the same trigger rectangle, window and position, whatever
\* earlier passes or the page wrote before.
C21_HistoryIndependent ==
    [][passes' > passes =>
          LET fresh == applyPlacement(NoStyle, triggerRect', window', position')
          IN  /\ style'.top = fresh.top
              /\ style'.left = fresh.left
              /\ style'.transform = fresh.transform]_vars

\* Several passes on a popover that carried a transform of its own, ending
\* below the trigger in the case that writes no transform.
C21_Witness ==
    /\ passes >= 2
    /\ events >= 1
    /\ styleBefore.transform = "scale(1)"
    /\ position = "block-end-trigger-inline-start"
    /\ style.top = Px(2 * (triggerRect.bottom + GAP))
    /\ style.transform = ""

\* C22: the transform calculator does not measure the popover: for the
\* trigger rectangle, window and position of a pass, the top, left and
\* transform it writes are the same whatever width and height the popover
\* has.
C22_NoMeasurement ==
    call.fn = "applyPlacement" =>
        \A size \in PopoverSizes :
            LET other == applyPlacementOn(
                             HTMLElement(call.before, size), call.triggerRect,
                             call.window, call.position).style
            IN  /\ other.top = call.result.top
                /\ other.left = call.result.left
                /\ other.transform = call.result.transform

\* A wide and tall popover centered below the trigger by a transform alone.
C22_Witness ==
    /\ call.fn = "applyPlacement"
    /\ call.size = [width |-> 200, height |-> 100]
    /\ call.position = "block-end"
    /\ call.placement = "bottom"
    /\ call.result.left = Px(2 * call.triggerRect.left + call.triggerRect.width)
    /\ call.result.transform = "translateX(-50%)"

(***************************************************************************)
(* Popovers opening and closing on one trigger, in a browser with CSS      *)
(* anchor positioning.  The positions a fallback binding writes are the    *)
(* subject of Spec and are left out here.                                  *)
(***************************************************************************)
\* useId(): one id per component instance.
useId(i) == ToString(i)

\* The trigger as the page renders it, with or without an anchor name of its
\* own.
TriggerElements ==
    {NewElement, setProperty(NewElement, "anchor-name", <<"--page-anchor">>)}

\* Popover i is rendered: its layout effect runs and shows it.
OpenPopover ==
    /\ \E i \in PopoverIds, fs \in TFallbackStrategy \cup {Undefined},
          link \in TLinkToTrigger, p \in TPosition :
         /\ ~popovers[i].open
         /\ LET ran == layoutEffect(triggerElement, NewElement, useId(i), TRUE,
                                    fs, link, p)
            IN  /\ triggerElement' = ran.trigger
                /\ popovers' = [popovers EXCEPT
                                  ![i] = [open |-> TRUE,
                                          element |-> ran.popover,
                                          cleanupFns |-> ran.cleanupFns]]
    /\ UNCHANGED <<bound, strategy, position, triggerRect, window, style,
                   styleBefore, listeners, isRunning, frameId, rafCallbacks,
                   nextHandle, passes, events, frames, disposeCalls,
                   disposedInPass, call>>

\* Popover i is removed: React calls the cleanup its effect returned.
ClosePopover ==
    /\ \E i \in PopoverIds :
         /\ popovers[i].open
         /\ LET ran == combine([trigger |-> triggerElement,
                                popover |-> popovers[i].element,
                                called |-> <<>>],
                               popovers[i].cleanupFns)
            IN  /\ triggerElement' = ran.trigger
                /\ popovers' = [popovers EXCEPT ![i] = Unmounted]
    /\ UNCHANGED <<bound, strategy, position, triggerRect, window, style,
                   styleBefore, listeners, isRunning, frameId, rafCallbacks,
                   nextHandle, passes, events, frames, disposeCalls,
                   disposedInPass, call>>

InitPopovers ==
    /\ bound = FALSE
    /\ strategy = "update-on-change"
    /\ position = "block-end"
    /\ triggerRect = DOMRect(75, 5, 21, 10)
    /\ window = Window(100, 50)
    /\ style = NoStyle
    /\ styleBefore = NoStyle
    /\ triggerElement \in TriggerElements
    /\ listeners = {}
    /\ isRunning = FALSE
    /\ frameId = 0
    /\ rafCallbacks = {}
    /\ nextHandle = 1
    /\ passes = 0
    /\ events = 0
    /\ frames = 0
    /\ disposeCalls = 0
    /\ disposedInPass = FALSE
    /\ call = Idle
    /\ popovers = [i \in PopoverIds |-> Unmounted]

NextPopovers ==
    \/ OpenPopover
    \/ ClosePopover

SpecPopovers == InitPopovers /\ [][NextPopovers]_vars

\* C23: while a popover positioned by an anchor is open, the trigger's
\* anchor-name is the name that popover's position-anchor refers to, also
\* after another popover on the same trigger has closed.
C23_AnchorNameKept ==
    \A i \in PopoverIds :
        (popovers[i].open /\ popovers[i].element.style["position-anchor"] # <<>>)
            => triggerElement.style["anchor-name"] =
                   popovers[i].element.style["position-anchor"]

\* C24: under update-each-frame at most one animation frame request is
\* outstanding in every reachable state: exactly the one held in frameId
\* from bind until the cleanup function is called, and none afterwards.
C24_OneFrameOutstanding ==
    (bound /\ strategy = "update-each-frame") =>
        /\ Cardinality(rafCallbacks) <= 1
        /\ disposeCalls = 0 => rafCallbacks = {frameId}
        /\ disposeCalls > 0 => rafCallbacks = {}

\* Frames were delivered, each tick requested its successor, and the cleanup
\* function then cancelled the last request.
C24_Witness ==
    /\ bound
    /\ strategy = "update-each-frame"
    /\ frames >= 2
    /\ passes >= 2
    /\ nextHandle >= 4
    /\ ~disposedInPass
    /\ disposeCalls = 1
    /\ rafCallbacks = {}

\* C25: in the measured variant a popover no wider and no taller than the
\* window lies inside the window after a complete pass: 0 <= left,
\* left + width <= innerWidth, 0 <= top, top + height <= innerHeight.
C25_InsideViewport ==
    (/\ call.fn = "measuredApplyPlacement"
     /\ call.size.width <= call.window.innerWidth
     /\ call.size.height <= call.window.innerHeight)
        => /\ 0 <= call.result.left.halves
           /\ call.result.left.halves + 2 * call.size.width
                 <= 2 * call.window.innerWidth
           /\ 0 <= call.result.top.halves
           /\ call.result.top.halves + 2 * call.size.height
                 <= 2 * call.window.innerHeight

\* A popover that fits the window, placed past its right and bottom edge and
\* moved back in by the clamp.
C25_Witness ==
    /\ call.fn = "measuredApplyPlacement"
    /\ call.size.width <= call.window.innerWidth
    /\ call.size.height <= call.window.innerHeight
    /\ call.placed.left.halves + 2 * call.size.width > 2 * call.window.innerWidth
    /\ call.result.left = Px(2 * (call.window.innerWidth - call.size.width))
    /\ call.result.left # call.placed.left

\* C26: the two simple calculators place the popover in the same rectangle:
\* the transform variant's top and left moved by its translation of 50% or
\* 100% of the popover's own size is the rectangle the measured variant's
\* explicit top and left give before the clamp, for every trigger rectangle,
\* popover size, side and position.
C26_CalculatorsAgree ==
    call.fn = "applyPlacementStyles" =>
        LET drawn == visualRect(call.transform, call.size)
            box == getBoundingClientRect(call.measured, call.size)
        IN  /\ drawn.left = box.left
            /\ drawn.right = box.right
            /\ drawn.top = box.top
            /\ drawn.bottom = box.bottom

\* A popover wider than its odd-width trigger, centered above it: the left
\* edge falls on a half pixel left of the trigger in both variants.
C26_Witness ==
    /\ call.fn = "applyPlacementStyles"
    /\ call.placement = "top"
    /\ call.position = "block-end"
    /\ call.triggerRect = DOMRect(3, 5, 7, 9)
    /\ call.size = [width |-> 200, height |-> 5]
    /\ call.transform.transform = "translate(-50%, -100%)"
    /\ call.measured.left = Px(2 * 3 + 7 - 200)
    /\ call.measured.transform = ""

\* The order in which getAvailableSpace creates the keys of its result.
KeyOrder == <<"top", "right", "bottom", "left">>

\* C27: when no side fits, getBestBasePlacement returns the first side, in
\* the order top, right, bottom, left, among those that share the maximum
\* available space.
C27_TieBreakOrder ==
    (call.fn = "getBestBasePlacement" /\ \A s \in TBasePlacement : ~Fits(s))
        => \E i \in 1 .. 4 :
             /\ call.result = KeyOrder[i]
             /\ \A j \in 1 .. 4 :
                  call.available[KeyOrder[j]] <= call.available[KeyOrder[i]]
             /\ \A j \in 1 .. (i - 1) :
                  call.available[KeyOrder[j]] < call.available[KeyOrder[i]]

\* Nothing fits, right, bottom and left tie for the most space and top has
\* less: right is returned for a desired left.
C27_Witness ==
    /\ call.fn = "getBestBasePlacement"
    /\ \A s \in TBasePlacement : ~Fits(s)
    /\ call.desired = "left"
    /\ call.available.right = call.available.bottom
    /\ call.available.bottom = call.available.left
    /\ call.available.top < call.available.right
    /\ call.result = "right"

C30_PlacementRoundTrips ==
    call.fn = "buildPlacement" =>
        /\ call.rebuilt = call.placement
        /\ call.built \in TPlacement
        /\ call.builtBase = call.base
        /\ call.builtAlignment = call.alignment
        /\ call.oppositeTwice = call.base
        /\ call.opposite # call.base
        /\ (call.base \in {"top", "bottom"}) <=> (call.opposite \in {"top", "bottom"})

\* bottom-end taken apart and put together, and left with end composed.
C30_Witness ==
    /\ call.fn = "buildPlacement"
    /\ call.placement = Chars("bottom") \o Chars("-end")
    /\ call.rebuilt = Chars("bottom") \o Chars("-end")
    /\ call.base = "left"
    /\ call.alignment = "end"
    /\ call.built = Chars("left") \o Chars("-end")
    /\ call.opposite = "right"

====
